---------------------------- MODULE Spec2Model ----------------------------
(***************************************************************************)
(* napa::runtime (inc/napa-runtime.h): the C++ wrapper around the napa     *)
(* runtime C API.  The wrapper's state is the Container objects (each one  *)
(* field, _handle), the heap of AsyncCompletionContext objects, the argv   *)
(* vectors local to Run, and what the caller observes (callback            *)
(* invocations, return values).  The engine behind napa-runtime-c.h is     *)
(* not part of the header: it is modelled from its contract.  There is one *)
(* caller thread; the engine completes asynchronous calls on its own.      *)
(***************************************************************************)
EXTENDS Naturals, Sequences, FiniteSets

(* Bounds of the model: the Container objects the caller makes, and the   *)
(* calls (SetGlobalValue, loads and runs) it makes on them.                *)
NumObjs == 2
MaxOps == 2

Objs == 1..NumObjs
Ops == 1..MaxOps
Handles == 1..NumObjs
Addrs == 1..MaxOps

(* napa_container_handle: 0 is the null handle. *)
NullHandle == 0
(* A heap cell that holds no AsyncCompletionContext. *)
Free == 0

(* Inputs of the calls. *)
Settings == {<<>>, <<"s">>}
Files == {<<"f", "1">>}
Sources == {<<"s", "1">>}
Funcs == {<<"g">>}
ArgLists == {<<<<"1">>, <<"2", "2">>>>}
Timeouts == {0, 1}
Keys == {<<"k">>}

AsyncKinds == {"LoadFile", "Load", "Run"}
SyncKinds == {"SetGlobalValue", "LoadFileSync", "LoadSync", "RunSync"}
RunKinds == {"Run", "RunSync"}

VARIABLES
    objState,    \* Container object: "none", "live" or "destroyed"
    objHandle,   \* Container::_handle
    heap,        \* heap cell -> the callback held by the context there, or Free
    argv,        \* the argv vector local to Run in call o: alive or not, its views
    pc,          \* the caller in call o: "idle", "called" (inside), "returned"
    cbLog,       \* callback of call o -> the values it was invoked with
    ret,         \* the caller's variable for what synchronous call o returns
    engHandle,   \* engine: handle -> "free", "live", "released"
    engInit,     \* engine: handle -> what napa_container_init returned
    releases,    \* engine: handle -> how many times it was released
    engReq,      \* engine: the request of call o
    engState,    \* engine: call o is "none", "queued" or "done"
    engResult,   \* engine: the result it produced for call o
    busyAtExit,  \* object -> asynchronous calls outstanding when it was destroyed
    staleUse,    \* handle -> a call reached the engine after its release
    callTimeout, \* the timeout argument the caller gave Run or RunSync in call o
    ctxLog       \* what has happened to the context of call o, in order

vars ==
    <<objState, objHandle, heap, argv, pc, cbLog, ret, engHandle, engInit,
      releases, engReq, engState, engResult, busyAtExit, staleUse,
      callTimeout, ctxLog>>

--------------------------------------------------------------------------
(* Strings and views. *)

(* STD_STRING_TO_NAPA_STRING_REF: a view of a caller-owned string.  The    *)
(* caller keeps its strings alive and unchanged, so the pointer is written *)
(* as the text it points to.                                               *)
StdStringToNapaStringRef(str) == [data |-> str, size |-> Len(str)]

(* NAPA_STRING_REF_TO_STD_STRING: std::string(ref.data, ref.size), a copy  *)
(* of size characters of the buffer ref.data points to, in memory mem.     *)
NapaStringRefToStdString(ref, mem) ==
    SubSeq(mem[ref.data[1]][ref.data[2]], 1, ref.size)

(* A default constructor that sets the code to Success. *)
ResponseDefault_Success ==
    [code |-> "Success", error |-> <<>>, returnValue |-> <<>>]

(* Response::Response(). *)
ResponseDefault == [code |-> "Undefined", error |-> <<>>, returnValue |-> <<>>]

(* A Response constructor that leaves the error text out. *)
ResponseOf_NoError(response, mem) ==
    [code |-> response.code,
     error |-> <<>>,
     returnValue |-> NapaStringRefToStdString(response.return_value, mem)]

(* A Response constructor that reads the views after the engine has reused *)
(* its buffers.                                                            *)
ResponseOf_Late(response, mem) ==
    [code |-> response.code,
     error |-> [i \in 1..response.error.size |-> "#"],
     returnValue |-> [i \in 1..response.return_value.size |-> "#"]]

(* Response::Response(napa_container_response), with the engine's memory   *)
(* as it is during the call.                                               *)
ResponseOf(response, mem) ==
    [code |-> response.code,
     error |-> NapaStringRefToStdString(response.error, mem),
     returnValue |-> NapaStringRefToStdString(response.return_value, mem)]

(* internal::ConvertToNapaRuntimeArgs. *)
ConvertToNapaRuntimeArgs(args) ==
    [i \in 1..Len(args) |-> StdStringToNapaStringRef(args[i])]

--------------------------------------------------------------------------
(* The engine behind napa-runtime-c.h. *)

(* An engine request slot that holds no request. *)
NoReq ==
    [kind |-> "none", handle |-> NullHandle,
     text |-> StdStringToNapaStringRef(<<>>), argc |-> 0, context |-> Free,
     timeout |-> 0]

(* What the engine keeps of a request it has completed: it has given the   *)
(* context back.                                                           *)
Completed(req) == [req EXCEPT !.context = Free]

(* No result yet. *)
NoResult == [code |-> "Undefined", error |-> <<>>, ret |-> <<>>]

(* Engine buffers that hold no response (not yet written, or reused). *)
Scribble == [error |-> <<"#", "#">>, return_value |-> <<"#", "#">>]

(* The argv vector of a Run that is not executing. *)
NoArgv == [alive |-> FALSE, views |-> <<>>]

(* What a load can report. *)
LoadResults ==
    {[code |-> "Success", error |-> <<>>, ret |-> <<>>],
     [code |-> "LoadFailure", error |-> <<>>, ret |-> <<>>]}

(* What napa_container_set_global_value can report. *)
SetResults ==
    {[code |-> "Success", error |-> <<>>, ret |-> <<>>],
     [code |-> "ExecutionFailure", error |-> <<>>, ret |-> <<>>]}

(* What a run can report: a failure carries a diagnostic, and Timeout is   *)
(* reported only when a timeout was asked for.                             *)
RunResults(timeout) ==
    {[code |-> "Success", error |-> <<>>, ret |-> <<"3">>],
     [code |-> "ExecutionFailure", error |-> <<"e", "x">>, ret |-> <<>>]}
    \cup (IF timeout > 0
          THEN {[code |-> "Timeout", error |-> <<"t", "o">>, ret |-> <<>>]}
          ELSE {})

EngineResults(kind, timeout) ==
    IF kind \in RunKinds THEN RunResults(timeout)
    ELSE IF kind = "SetGlobalValue" THEN SetResults
    ELSE LoadResults

(* The engine's buffers holding result r. *)
Buffers(r) == [error |-> r.error, return_value |-> r.ret]

(* napa_container_response for call o: a code and two views into the       *)
(* engine's buffers for that call.                                         *)
NativeResponse(o, r) ==
    [code |-> r.code,
     error |-> [data |-> <<o, "error">>, size |-> Len(r.error)],
     return_value |-> [data |-> <<o, "return_value">>, size |-> Len(r.ret)]]

(* The engine's memory while it reports result r of call o: its buffers    *)
(* hold a response only for the duration of the call or callback.          *)
MemoryDuring(o, r) ==
    [s \in Ops |-> IF s = o THEN Buffers(r) ELSE Scribble]

(* The engine's memory outside its calls and callbacks: no buffer holds a  *)
(* response any more.                                                      *)
MemoryAfter == [s \in Ops |-> Scribble]

(* napa_container_create: a fresh handle, or none. *)
napa_container_create ==
    {NullHandle} \cup
    {h \in Handles : engHandle[h] = "free"
                     /\ \A g \in Handles : g < h => engHandle[g] # "free"}

(* napa_container_init: what it can return. *)
napa_container_init(handle, settings) ==
    IF handle = NullHandle THEN {"InitFailure"}
    ELSE IF settings = <<>> THEN {"Success"}
    ELSE {"Success", "InitFailure"}

(* napa_container_release. *)
napa_container_release(handle) ==
    IF handle = NullHandle
    THEN UNCHANGED <<engHandle, releases>>
    ELSE /\ engHandle' = [engHandle EXCEPT ![handle] = "released"]
         /\ releases' = [releases EXCEPT ![handle] = @ + 1]

(* The engine notes a call on a handle it has released. *)
MarkUse(handle) ==
    IF handle \in Handles /\ engHandle[handle] = "released"
    THEN [staleUse EXCEPT ![handle] = TRUE]
    ELSE staleUse

(* napa_container_load_file, napa_container_load, napa_container_run: the  *)
(* engine queues the request and returns.                                  *)
EngineRegister(o, req) ==
    /\ engReq' = [engReq EXCEPT ![o] = req]
    /\ engState' = [engState EXCEPT ![o] = "queued"]
    /\ staleUse' = MarkUse(req.handle)
    /\ UNCHANGED engResult

napa_container_load_file(o, handle, file, context) ==
    EngineRegister(o, [kind |-> "LoadFile", handle |-> handle, text |-> file,
                       argc |-> 0, context |-> context, timeout |-> 0])

napa_container_load(o, handle, source, context) ==
    EngineRegister(o, [kind |-> "Load", handle |-> handle, text |-> source,
                       argc |-> 0, context |-> context, timeout |-> 0])

napa_container_run(o, handle, func, argc, context, timeout) ==
    EngineRegister(o, [kind |-> "Run", handle |-> handle, text |-> func,
                       argc |-> argc, context |-> context,
                       timeout |-> timeout])

(* napa_container_set_global_value, napa_container_load_file_sync,         *)
(* napa_container_load_sync, napa_container_run_sync: the engine serves    *)
(* the request before it returns, with result r.                           *)
EngineServe(o, req, r) ==
    /\ engReq' = [engReq EXCEPT ![o] = Completed(req)]
    /\ engState' = [engState EXCEPT ![o] = "done"]
    /\ engResult' = [engResult EXCEPT ![o] = r]
    /\ staleUse' = MarkUse(req.handle)

napa_container_set_global_value(o, handle, key, r) ==
    EngineServe(o, [kind |-> "SetGlobalValue", handle |-> handle,
                    text |-> key, argc |-> 0, context |-> Free,
                    timeout |-> 0], r)

napa_container_load_file_sync(o, handle, file, r) ==
    EngineServe(o, [kind |-> "LoadFileSync", handle |-> handle,
                    text |-> file, argc |-> 0, context |-> Free,
                    timeout |-> 0], r)

napa_container_load_sync(o, handle, source, r) ==
    EngineServe(o, [kind |-> "LoadSync", handle |-> handle,
                    text |-> source, argc |-> 0, context |-> Free,
                    timeout |-> 0], r)

napa_container_run_sync(o, handle, func, argc, timeout, r) ==
    EngineServe(o, [kind |-> "RunSync", handle |-> handle, text |-> func,
                    argc |-> argc, context |-> Free, timeout |-> timeout], r)

(* An asynchronous call that was submitted and whose completion handler    *)
(* has not run.                                                            *)
Outstanding(o) == engState[o] = "queued"

OutstandingOn(handle) ==
    {o \in Ops : Outstanding(o) /\ engReq[o].handle = handle}

--------------------------------------------------------------------------
(* The wrapper. *)

Init ==
    /\ objState = [c \in Objs |-> "none"]
    /\ objHandle = [c \in Objs |-> NullHandle]
    /\ heap = [a \in Addrs |-> Free]
    /\ argv = [o \in Ops |-> NoArgv]
    /\ pc = [o \in Ops |-> "idle"]
    /\ cbLog = [o \in Ops |-> <<>>]
    /\ ret = [o \in Ops |-> ResponseDefault]
    /\ engHandle = [h \in Handles |-> "free"]
    /\ engInit = [h \in Handles |-> "Undefined"]
    /\ releases = [h \in Handles |-> 0]
    /\ engReq = [o \in Ops |-> NoReq]
    /\ engState = [o \in Ops |-> "none"]
    /\ engResult = [o \in Ops |-> NoResult]
    /\ busyAtExit = [c \in Objs |-> 0]
    /\ staleUse = [h \in Handles |-> FALSE]
    /\ callTimeout = [o \in Ops |-> 0]
    /\ ctxLog = [o \in Ops |-> <<>>]

(* The caller's objects and calls are numbered in the order they are made. *)
NextObj(c) ==
    objState[c] = "none" /\ \A d \in Objs : d < c => objState[d] # "none"

NextOp(o) == pc[o] = "idle" /\ \A p \in Ops : p < o => pc[p] # "idle"

(* There is one caller thread: while it is inside a submitting call it     *)
(* makes no other call.                                                    *)
CallerIdle == \A o \in Ops : pc[o] # "called"

(* One context shared by all the calls, instead of one allocated per call. *)
NewContext_Shared == {CHOOSE a \in Addrs : \A b \in Addrs : a <= b}

(* new AsyncCompletionContext<...>: the cells the allocator can return. *)
NewContext == {a \in Addrs : heap[a] = Free}

(* What the callback receives: CompletionHandler<RunCallback,              *)
(* napa_container_response> converts the response to a Response,           *)
(* CompletionHandler<LoadCallback, NapaResponseCode> passes the code.      *)
CallbackArgument(kind, response, mem) ==
    IF kind = "Run" THEN ResponseOf(response, mem) ELSE [code |-> response]

(* A completion handler that invokes the callback twice. *)
CompletionHandler_Twice(kind, response, context, mem) ==
    /\ cbLog' = [cbLog EXCEPT
                   ![heap[context]] =
                       Append(Append(@, CallbackArgument(kind, response, mem)),
                              CallbackArgument(kind, response, mem))]
    /\ heap' = [heap EXCEPT ![context] = Free]
    /\ ctxLog' = [ctxLog EXCEPT
                    ![heap[context]] =
                        @ \o <<"reclaimed", "invoked", "invoked", "destroyed">>]

(* A completion handler that destroys the context before it invokes the    *)
(* callback held in it.                                                    *)
CompletionHandler_DeleteFirst(kind, response, context, mem) ==
    /\ cbLog' = [cbLog EXCEPT
                   ![heap[context]] =
                       Append(@, CallbackArgument(kind, response, mem))]
    /\ heap' = [heap EXCEPT ![context] = Free]
    /\ ctxLog' = [ctxLog EXCEPT
                    ![heap[context]] =
                        @ \o <<"reclaimed", "destroyed", "invoked">>]

(* internal::CompletionHandler: take the context back, invoke its          *)
(* callback, destroy it.                                                   *)
CompletionHandler(kind, response, context, mem) ==
    /\ cbLog' = [cbLog EXCEPT
                   ![heap[context]] =
                       Append(@, CallbackArgument(kind, response, mem))]
    /\ heap' = [heap EXCEPT ![context] = Free]
    /\ ctxLog' = [ctxLog EXCEPT
                    ![heap[context]] =
                        @ \o <<"reclaimed", "invoked", "destroyed">>]

(* Container::Container: neither the handle nor the code of                *)
(* napa_container_init is looked at.                                       *)
Construct(c, settings) ==
    /\ CallerIdle
    /\ NextObj(c)
    /\ \E handle \in napa_container_create :
         \E code \in napa_container_init(handle, settings) :
           /\ objHandle' = [objHandle EXCEPT ![c] = handle]
           /\ objState' = [objState EXCEPT ![c] = "live"]
           /\ IF handle = NullHandle
              THEN UNCHANGED <<engHandle, engInit>>
              ELSE /\ engHandle' = [engHandle EXCEPT ![handle] = "live"]
                   /\ engInit' = [engInit EXCEPT ![handle] = code]
    /\ UNCHANGED <<heap, argv, pc, cbLog, ret, releases, engReq, engState,
                   engResult, busyAtExit, staleUse, callTimeout, ctxLog>>

(* The copy constructor the class leaves implicit: _handle is copied. *)
Copy(src, dst) ==
    /\ CallerIdle
    /\ objState[src] = "live"
    /\ NextObj(dst)
    /\ objHandle' = [objHandle EXCEPT ![dst] = objHandle[src]]
    /\ objState' = [objState EXCEPT ![dst] = "live"]
    /\ UNCHANGED <<heap, argv, pc, cbLog, ret, engHandle, engInit, releases,
                   engReq, engState, engResult, busyAtExit, staleUse,
                   callTimeout, ctxLog>>

(* The copy assignment the class leaves implicit: _handle is overwritten   *)
(* with the other object's; the handle held before is not released.        *)
Assign(src, dst) ==
    /\ CallerIdle
    /\ objState[src] = "live"
    /\ objState[dst] = "live"
    /\ objHandle[dst] # objHandle[src]
    /\ objHandle' = [objHandle EXCEPT ![dst] = objHandle[src]]
    /\ UNCHANGED <<objState, heap, argv, pc, cbLog, ret, engHandle, engInit,
                   releases, engReq, engState, engResult, busyAtExit,
                   staleUse, callTimeout, ctxLog>>

(* A destructor that also frees the contexts of the calls outstanding on   *)
(* the handle.                                                             *)
Destroy_FreeContexts(c) ==
    /\ CallerIdle
    /\ objState[c] = "live"
    /\ objState' = [objState EXCEPT ![c] = "destroyed"]
    /\ napa_container_release(objHandle[c])
    /\ busyAtExit' =
         [busyAtExit EXCEPT ![c] = Cardinality(OutstandingOn(objHandle[c]))]
    /\ heap' = [a \in Addrs |->
                  IF heap[a] \in OutstandingOn(objHandle[c]) THEN Free
                  ELSE heap[a]]
    /\ UNCHANGED <<objHandle, argv, pc, cbLog, ret, engInit, engReq,
                   engState, engResult, staleUse, callTimeout, ctxLog>>

(* Container::~Container. *)
Destroy(c) ==
    /\ CallerIdle
    /\ objState[c] = "live"
    /\ objState' = [objState EXCEPT ![c] = "destroyed"]
    /\ napa_container_release(objHandle[c])
    /\ busyAtExit' =
         [busyAtExit EXCEPT ![c] = Cardinality(OutstandingOn(objHandle[c]))]
    /\ UNCHANGED <<objHandle, heap, argv, pc, cbLog, ret, engInit, engReq,
                   engState, engResult, staleUse, callTimeout, ctxLog>>

(* Container::SetGlobalValue. *)
SetGlobalValue(c, o, key) ==
    /\ CallerIdle
    /\ objState[c] = "live"
    /\ NextOp(o)
    /\ \E r \in EngineResults("SetGlobalValue", 0) :
         /\ napa_container_set_global_value(o, objHandle[c],
                                            StdStringToNapaStringRef(key), r)
         /\ ret' = [ret EXCEPT ![o] = [code |-> r.code]]
    /\ pc' = [pc EXCEPT ![o] = "returned"]
    /\ UNCHANGED <<objState, objHandle, heap, argv, cbLog, engHandle, engInit,
                   releases, busyAtExit, callTimeout, ctxLog>>

(* Container::LoadFile, up to the return of napa_container_load_file. *)
LoadFile(c, o, file) ==
    /\ CallerIdle
    /\ objState[c] = "live"
    /\ NextOp(o)
    /\ \E context \in NewContext :
         /\ heap' = [heap EXCEPT ![context] = o]
         /\ napa_container_load_file(o, objHandle[c],
                                     StdStringToNapaStringRef(file), context)
    /\ pc' = [pc EXCEPT ![o] = "called"]
    /\ ctxLog' = [ctxLog EXCEPT ![o] = <<"allocated", "engine">>]
    /\ UNCHANGED <<objState, objHandle, argv, cbLog, ret, engHandle, engInit,
                   releases, busyAtExit, callTimeout>>

(* A LoadFileSync that gives the handle up when the load fails. *)
LoadFileSync_DropOnFailure(c, o, file) ==
    /\ CallerIdle
    /\ objState[c] = "live"
    /\ NextOp(o)
    /\ \E r \in EngineResults("LoadFileSync", 0) :
         /\ napa_container_load_file_sync(o, objHandle[c],
                                          StdStringToNapaStringRef(file), r)
         /\ ret' = [ret EXCEPT ![o] = [code |-> r.code]]
         /\ objHandle' = [objHandle EXCEPT
                            ![c] = IF r.code = "Success" THEN @
                                   ELSE NullHandle]
    /\ pc' = [pc EXCEPT ![o] = "returned"]
    /\ UNCHANGED <<objState, heap, argv, cbLog, engHandle, engInit,
                   releases, busyAtExit, callTimeout, ctxLog>>

(* Container::LoadFileSync. *)
LoadFileSync(c, o, file) ==
    /\ CallerIdle
    /\ objState[c] = "live"
    /\ NextOp(o)
    /\ \E r \in EngineResults("LoadFileSync", 0) :
         /\ napa_container_load_file_sync(o, objHandle[c],
                                          StdStringToNapaStringRef(file), r)
         /\ ret' = [ret EXCEPT ![o] = [code |-> r.code]]
    /\ pc' = [pc EXCEPT ![o] = "returned"]
    /\ UNCHANGED <<objState, objHandle, heap, argv, cbLog, engHandle, engInit,
                   releases, busyAtExit, callTimeout, ctxLog>>

(* A Load that invokes the callback itself, before it returns. *)
Load_Reentrant(c, o, source) ==
    /\ CallerIdle
    /\ objState[c] = "live"
    /\ NextOp(o)
    /\ \E context \in NewContext :
         /\ heap' = [heap EXCEPT ![context] = o]
         /\ napa_container_load(o, objHandle[c],
                                StdStringToNapaStringRef(source), context)
    /\ cbLog' = [cbLog EXCEPT ![o] = Append(@, [code |-> "Success"])]
    /\ pc' = [pc EXCEPT ![o] = "called"]
    /\ ctxLog' = [ctxLog EXCEPT ![o] = <<"allocated", "engine">>]
    /\ UNCHANGED <<objState, objHandle, argv, ret, engHandle, engInit,
                   releases, busyAtExit, callTimeout>>

(* Container::Load, up to the return of napa_container_load. *)
Load(c, o, source) ==
    /\ CallerIdle
    /\ objState[c] = "live"
    /\ NextOp(o)
    /\ \E context \in NewContext :
         /\ heap' = [heap EXCEPT ![context] = o]
         /\ napa_container_load(o, objHandle[c],
                                StdStringToNapaStringRef(source), context)
    /\ pc' = [pc EXCEPT ![o] = "called"]
    /\ ctxLog' = [ctxLog EXCEPT ![o] = <<"allocated", "engine">>]
    /\ UNCHANGED <<objState, objHandle, argv, cbLog, ret, engHandle, engInit,
                   releases, busyAtExit, callTimeout>>

(* A LoadSync that does not look at the code the engine returns. *)
LoadSync_IgnoreCode(c, o, source) ==
    /\ CallerIdle
    /\ objState[c] = "live"
    /\ NextOp(o)
    /\ \E r \in EngineResults("LoadSync", 0) :
         /\ napa_container_load_sync(o, objHandle[c],
                                     StdStringToNapaStringRef(source), r)
         /\ ret' = [ret EXCEPT ![o] = [code |-> "Success"]]
    /\ pc' = [pc EXCEPT ![o] = "returned"]
    /\ UNCHANGED <<objState, objHandle, heap, argv, cbLog, engHandle, engInit,
                   releases, busyAtExit, callTimeout, ctxLog>>

(* Container::LoadSync. *)
LoadSync(c, o, source) ==
    /\ CallerIdle
    /\ objState[c] = "live"
    /\ NextOp(o)
    /\ \E r \in EngineResults("LoadSync", 0) :
         /\ napa_container_load_sync(o, objHandle[c],
                                     StdStringToNapaStringRef(source), r)
         /\ ret' = [ret EXCEPT ![o] = [code |-> r.code]]
    /\ pc' = [pc EXCEPT ![o] = "returned"]
    /\ UNCHANGED <<objState, objHandle, heap, argv, cbLog, engHandle, engInit,
                   releases, busyAtExit, callTimeout, ctxLog>>

(* A Run that asks the engine for no timeout, whatever the caller asked. *)
Run_NoTimeout(c, o, func, args, timeout) ==
    /\ CallerIdle
    /\ objState[c] = "live"
    /\ NextOp(o)
    /\ argv' = [argv EXCEPT
                  ![o] = [alive |-> TRUE,
                          views |-> ConvertToNapaRuntimeArgs(args)]]
    /\ \E context \in NewContext :
         /\ heap' = [heap EXCEPT ![context] = o]
         /\ napa_container_run(o, objHandle[c], StdStringToNapaStringRef(func),
                               Len(argv'[o].views), context, 0)
    /\ pc' = [pc EXCEPT ![o] = "called"]
    /\ callTimeout' = [callTimeout EXCEPT ![o] = timeout]
    /\ ctxLog' = [ctxLog EXCEPT ![o] = <<"allocated", "engine">>]
    /\ UNCHANGED <<objState, objHandle, cbLog, ret, engHandle, engInit,
                   releases, busyAtExit>>

(* Container::Run, up to the return of napa_container_run. *)
Run(c, o, func, args, timeout) ==
    /\ CallerIdle
    /\ objState[c] = "live"
    /\ NextOp(o)
    /\ argv' = [argv EXCEPT
                  ![o] = [alive |-> TRUE,
                          views |-> ConvertToNapaRuntimeArgs(args)]]
    /\ \E context \in NewContext :
         /\ heap' = [heap EXCEPT ![context] = o]
         /\ napa_container_run(o, objHandle[c], StdStringToNapaStringRef(func),
                               Len(argv'[o].views), context, timeout)
    /\ pc' = [pc EXCEPT ![o] = "called"]
    /\ callTimeout' = [callTimeout EXCEPT ![o] = timeout]
    /\ ctxLog' = [ctxLog EXCEPT ![o] = <<"allocated", "engine">>]
    /\ UNCHANGED <<objState, objHandle, cbLog, ret, engHandle, engInit,
                   releases, busyAtExit>>

(* An end of LoadFile, Load and Run that waits for the engine to complete  *)
(* the call.                                                               *)
SubmitReturn_Blocking(o) ==
    /\ pc[o] = "called"
    /\ engState[o] = "done"
    /\ pc' = [pc EXCEPT ![o] = "returned"]
    /\ argv' = [argv EXCEPT ![o] = NoArgv]
    /\ UNCHANGED <<objState, objHandle, heap, cbLog, ret, engHandle, engInit,
                   releases, engReq, engState, engResult, busyAtExit,
                   staleUse, callTimeout, ctxLog>>

(* The end of LoadFile, Load and Run: the locals (argv, in Run) are        *)
(* destroyed and the caller has control again.                             *)
SubmitReturn(o) ==
    /\ pc[o] = "called"
    /\ pc' = [pc EXCEPT ![o] = "returned"]
    /\ argv' = [argv EXCEPT ![o] = NoArgv]
    /\ UNCHANGED <<objState, objHandle, heap, cbLog, ret, engHandle, engInit,
                   releases, engReq, engState, engResult, busyAtExit,
                   staleUse, callTimeout, ctxLog>>

(* A RunSync that asks the engine for a timeout of its own. *)
RunSync_OwnTimeout(c, o, func, args, timeout) ==
    /\ CallerIdle
    /\ objState[c] = "live"
    /\ NextOp(o)
    /\ \E r \in EngineResults("RunSync", 1) :
         LET argvLocal == ConvertToNapaRuntimeArgs(args)
             response == NativeResponse(o, r)
         IN /\ napa_container_run_sync(o, objHandle[c],
                                       StdStringToNapaStringRef(func),
                                       Len(argvLocal), 1, r)
            /\ ret' = [ret EXCEPT
                         ![o] = ResponseOf(response, MemoryDuring(o, r))]
    /\ pc' = [pc EXCEPT ![o] = "returned"]
    /\ callTimeout' = [callTimeout EXCEPT ![o] = timeout]
    /\ UNCHANGED <<objState, objHandle, heap, argv, cbLog, engHandle, engInit,
                   releases, busyAtExit, ctxLog>>

(* Container::RunSync: argv lives for the whole (blocking) call. *)
RunSync(c, o, func, args, timeout) ==
    /\ CallerIdle
    /\ objState[c] = "live"
    /\ NextOp(o)
    /\ \E r \in EngineResults("RunSync", timeout) :
         LET argvLocal == ConvertToNapaRuntimeArgs(args)
             response == NativeResponse(o, r)
         IN /\ napa_container_run_sync(o, objHandle[c],
                                       StdStringToNapaStringRef(func),
                                       Len(argvLocal), timeout, r)
            /\ ret' = [ret EXCEPT
                         ![o] = ResponseOf(response, MemoryDuring(o, r))]
    /\ pc' = [pc EXCEPT ![o] = "returned"]
    /\ callTimeout' = [callTimeout EXCEPT ![o] = timeout]
    /\ UNCHANGED <<objState, objHandle, heap, argv, cbLog, engHandle, engInit,
                   releases, busyAtExit, ctxLog>>

--------------------------------------------------------------------------
(* The engine's worker threads. *)

(* The engine signals the completion of a queued request, once, after the  *)
(* submitting call has returned: it calls the handler it was given with    *)
(* the context it was given and the result, and then reuses its buffers.   *)
EngineSignal(o) ==
    /\ engState[o] = "queued"
    /\ pc[o] = "returned"
    /\ \E r \in EngineResults(engReq[o].kind, engReq[o].timeout) :
         LET req == engReq[o]
             response == IF req.kind = "Run" THEN NativeResponse(o, r)
                         ELSE r.code
         IN /\ engResult' = [engResult EXCEPT ![o] = r]
            /\ CompletionHandler(req.kind, response, req.context,
                                 MemoryDuring(o, r))
    /\ engReq' = [engReq EXCEPT ![o] = Completed(engReq[o])]
    /\ engState' = [engState EXCEPT ![o] = "done"]
    /\ UNCHANGED <<objState, objHandle, argv, pc, ret, engHandle, engInit,
                   releases, busyAtExit, staleUse, callTimeout>>

--------------------------------------------------------------------------
Next ==
    \/ \E c \in Objs, settings \in Settings : Construct(c, settings)
    \/ \E src \in Objs, dst \in Objs : Copy(src, dst)
    \/ \E src \in Objs, dst \in Objs : Assign(src, dst)
    \/ \E c \in Objs : Destroy(c)
    \/ \E c \in Objs, o \in Ops, key \in Keys : SetGlobalValue(c, o, key)
    \/ \E c \in Objs, o \in Ops, file \in Files : LoadFile(c, o, file)
    \/ \E c \in Objs, o \in Ops, file \in Files : LoadFileSync(c, o, file)
    \/ \E c \in Objs, o \in Ops, source \in Sources : Load(c, o, source)
    \/ \E c \in Objs, o \in Ops, source \in Sources : LoadSync(c, o, source)
    \/ \E c \in Objs, o \in Ops, func \in Funcs, args \in ArgLists,
          timeout \in Timeouts : Run(c, o, func, args, timeout)
    \/ \E c \in Objs, o \in Ops, func \in Funcs, args \in ArgLists,
          timeout \in Timeouts : RunSync(c, o, func, args, timeout)
    \/ \E o \in Ops : SubmitReturn(o)
    \/ \E o \in Ops : EngineSignal(o)

Spec == Init /\ [][Next]_vars

(* The submitting call runs on to its return, and the engine signals every *)
(* request it has queued.                                                  *)
Fairness ==
    \A o \in Ops : WF_vars(SubmitReturn(o)) /\ WF_vars(EngineSignal(o))

FairSpec == Spec /\ Fairness

(* The submitting call runs on to its return; nothing is said of when, or  *)
(* whether, the engine signals.                                            *)
CallerFairness == \A o \in Ops : WF_vars(SubmitReturn(o))

CallerFairSpec == Spec /\ CallerFairness

--------------------------------------------------------------------------
(* Properties. *)

(* An asynchronous call. *)
IsAsync(o) == engReq[o].kind \in AsyncKinds

(* The Response that carries engine result r. *)
ResponseWith(r) == [code |-> r.code, error |-> r.error, returnValue |-> r.ret]

(* C1: the callback of every asynchronous LoadFile, Load or Run is invoked *)
(* exactly once: never more than once, and, the engine signalling every    *)
(* request it queued, eventually once.                                     *)
C1_CallbackExactlyOnce ==
    /\ [](\A o \in Ops : Len(cbLog[o]) <= 1)
    /\ \A o \in Ops : Outstanding(o) ~> (Len(cbLog[o]) = 1)

(* C1, the case: two asynchronous calls were made and the callback of each *)
(* has been invoked.                                                       *)
C1_Witness ==
    \E a \in Ops, b \in Ops :
        /\ a # b /\ IsAsync(a) /\ IsAsync(b)
        /\ Len(cbLog[a]) = 1 /\ Len(cbLog[b]) = 1

(* C2: no container was destroyed, its handle released, while an           *)
(* asynchronous call submitted with that handle was outstanding.           *)
C2_NoReleaseWhileOutstanding ==
    \A c \in Objs : objState[c] = "destroyed" => busyAtExit[c] = 0

(* C3: while an asynchronous Run is outstanding, the array of argument     *)
(* views it handed to the engine is alive.                                 *)
C3_ViewsAliveUntilCallback ==
    \A o \in Ops :
        Outstanding(o) /\ engReq[o].kind = "Run" /\ engReq[o].argc > 0
            => argv[o].alive

(* C4: a handle has at most one live Container that holds it, and is       *)
(* released at most once.                                                  *)
C4_HandleOwnedOnce ==
    \A h \in Handles :
        /\ Cardinality({c \in Objs : objState[c] = "live" /\ objHandle[c] = h})
               <= 1
        /\ releases[h] <= 1

(* C5: a Container exists only if the engine gave it a handle and          *)
(* initialized it successfully.                                            *)
C5_NoContainerOnFailure ==
    \A c \in Objs :
        objState[c] = "live"
            => objHandle[c] # NullHandle /\ engInit[objHandle[c]] = "Success"

(* C6: the callback of an asynchronous Run has received nothing while the  *)
(* run is outstanding, and, once the engine has signalled it, exactly the  *)
(* result the engine produced for that run, whatever other runs are        *)
(* outstanding and in whatever order they complete.                        *)
C6_OwnResultOnly ==
    \A o \in Ops :
        engReq[o].kind = "Run"
            => cbLog[o] = IF engState[o] = "done"
                          THEN <<ResponseWith(engResult[o])>>
                          ELSE <<>>

(* C6, the case: of two runs on the same container, the one submitted last *)
(* has completed, with its own result, while the other is outstanding.     *)
C6_Witness ==
    \E a \in Ops, b \in Ops :
        /\ a < b
        /\ engReq[a].kind = "Run" /\ engReq[b].kind = "Run"
        /\ engReq[a].handle = engReq[b].handle
        /\ Outstanding(a) /\ cbLog[a] = <<>>
        /\ engState[b] = "done" /\ cbLog[b] = <<ResponseWith(engResult[b])>>

(* C7: no callback is invoked before the call that submitted it has        *)
(* returned.                                                               *)
C7_NoCallbackBeforeReturn ==
    \A o \in Ops : pc[o] # "returned" => cbLog[o] = <<>>

(* C7, the case: the caller is inside a submitting call while an earlier   *)
(* call's callback has been invoked.                                       *)
C7_Witness ==
    \E a \in Ops, b \in Ops :
        /\ pc[a] = "called" /\ Outstanding(a)
        /\ IsAsync(b) /\ Len(cbLog[b]) = 1

(* The Response values the caller holds: its variables for what RunSync    *)
(* returns, default-constructed until then, and what the Run callbacks     *)
(* received.                                                               *)
Responses ==
    {ret[o] : o \in {p \in Ops : engReq[p].kind \notin SyncKinds \ {"RunSync"}}}
    \cup UNION {{cbLog[o][i] : i \in 1..Len(cbLog[o])} :
                  o \in {p \in Ops : engReq[p].kind = "Run"}}

(* The Responses built from an engine result. *)
EngineResponses ==
    {ret[o] : o \in {p \in Ops : engReq[p].kind = "RunSync"}}
    \cup UNION {{cbLog[o][i] : i \in 1..Len(cbLog[o])} :
                  o \in {p \in Ops : engReq[p].kind = "Run"}}

(* C8, as claimed: the error text of every Response is empty exactly when  *)
(* its code is Success.                                                    *)
C8_ErrorEmptyIffSuccess ==
    \A R \in Responses : (R.error = <<>>) <=> (R.code = "Success")

(* C8, amended: the error text of every Response built from an engine      *)
(* result is empty exactly when its code is Success; a default-constructed *)
(* Response has code Undefined and an empty error text.                    *)
C8_ErrorEmptyIffSuccessOrDefault ==
    /\ \A R \in EngineResponses : (R.error = <<>>) <=> (R.code = "Success")
    /\ \A R \in Responses \ EngineResponses :
           R.code = "Undefined" /\ R.error = <<>>

(* C8, the case: a run that failed has delivered a Response with a         *)
(* diagnostic, a run that succeeded has returned one without, and a        *)
(* default-constructed Response is there.                                  *)
C8_Witness ==
    /\ \E R \in EngineResponses : R.code = "ExecutionFailure" /\ R.error # <<>>
    /\ \E R \in EngineResponses : R.code = "Success" /\ R.error = <<>>

(* C9: the handle of a container destroyed with no asynchronous call       *)
(* outstanding has been released once, and no call has reached the engine  *)
(* with it since.                                                          *)
C9_CleanDestroyReleasesOnce ==
    \A c \in Objs :
        objState[c] = "destroyed" /\ busyAtExit[c] = 0
        /\ objHandle[c] # NullHandle
            => /\ releases[objHandle[c]] = 1
               /\ ~staleUse[objHandle[c]]

(* C10: what a completed call returned, or delivered to its callback, has  *)
(* the code the engine produced for that call.                             *)
C10_EngineCodeDelivered ==
    \A o \in Ops :
        engState[o] = "done"
            => IF IsAsync(o)
               THEN /\ cbLog[o] # <<>>
                    /\ \A i \in 1..Len(cbLog[o]) :
                           cbLog[o][i].code = engResult[o].code
               ELSE ret[o].code = engResult[o].code

(* C10, the case: a synchronous load has returned the failure the engine   *)
(* reported, and the callback of an asynchronous run has received the      *)
(* failure the engine reported.                                            *)
C10_Witness ==
    \E a \in Ops, b \in Ops :
        /\ engReq[a].kind = "LoadSync" /\ engState[a] = "done"
        /\ engResult[a].code = "LoadFailure" /\ ret[a].code = "LoadFailure"
        /\ engReq[b].kind = "Run" /\ engState[b] = "done"
        /\ engResult[b].code # "Success" /\ cbLog[b] # <<>>
        /\ cbLog[b][1].code = engResult[b].code

(* The Response call o returned (RunSync) or delivered to its callback     *)
(* (Run).                                                                  *)
Delivered(o) == IF engReq[o].kind = "Run" THEN cbLog[o][1] ELSE ret[o]

(* What the views of call o's native response read in memory mem. *)
ReadViews(o, mem) == ResponseOf(NativeResponse(o, engResult[o]), mem)

(* C11: the Response a completed RunSync returned, or a completed Run      *)
(* delivered to its callback, holds the code, the error text and the       *)
(* return-value text the engine reported, as texts of its own: it holds    *)
(* them in every later state, when the engine's buffers hold them no more. *)
C11_ResponseOwnsEngineText ==
    \A o \in Ops :
        engState[o] = "done" /\ engReq[o].kind \in RunKinds
            => /\ Len(cbLog[o]) = (IF engReq[o].kind = "Run" THEN 1 ELSE 0)
               /\ Delivered(o).code = engResult[o].code
               /\ Delivered(o).error = engResult[o].error
               /\ Delivered(o).returnValue = engResult[o].ret

(* C11, the case: a RunSync returned a return value, a Run made after it   *)
(* has delivered an error text, and the views the engine reported them     *)
(* through no longer read what the Responses hold.                         *)
C11_Witness ==
    \E a \in Ops, b \in Ops :
        /\ a < b
        /\ engReq[a].kind = "RunSync" /\ engState[a] = "done"
        /\ ret[a].returnValue = <<"3">>
        /\ ReadViews(a, MemoryAfter).returnValue # ret[a].returnValue
        /\ engReq[b].kind = "Run" /\ engState[b] = "done"
        /\ cbLog[b][1].error # <<>>
        /\ ReadViews(b, MemoryAfter).error # cbLog[b][1].error

(* A load or a run. *)
LoadRunKinds == AsyncKinds \cup {"LoadFileSync", "LoadSync", "RunSync"}

(* Call o completes in this step, with a code that is not Success. *)
FailsNow(o) ==
    /\ engState[o] # "done"
    /\ engState'[o] = "done"
    /\ engResult'[o].code # "Success"

(* C12: a load or run that fails leaves the containers as they were: the   *)
(* step in which it completes changes no Container (its existence, its     *)
(* handle) and nothing the engine holds of a handle (live or released,     *)
(* initialized).                                                           *)
C12_FailureLeavesContainerUsable ==
    [][\A o \in Ops :
          FailsNow(o) /\ engReq'[o].kind \in LoadRunKinds
              => /\ objState' = objState
                 /\ objHandle' = objHandle
                 /\ engHandle' = engHandle
                 /\ engInit' = engInit
                 /\ releases' = releases]_vars

(* C12, the case: on one container, whose handle is live, a load failed    *)
(* and a run made after it succeeded.                                      *)
C12_Witness ==
    \E c \in Objs, a \in Ops, b \in Ops :
        /\ a < b
        /\ objState[c] = "live" /\ objHandle[c] # NullHandle
        /\ engHandle[objHandle[c]] = "live"
        /\ engReq[a].handle = objHandle[c] /\ engReq[b].handle = objHandle[c]
        /\ engReq[a].kind = "LoadFileSync" /\ engState[a] = "done"
        /\ ret[a].code = "LoadFailure"
        /\ engReq[b].kind = "RunSync" /\ engState[b] = "done"
        /\ ret[b].code = "Success"

(* C13: a RunSync called with timeout 0 gives control back to the caller   *)
(* only when the engine has completed the run, with the engine's response, *)
(* and the code of that response is never Timeout.                         *)
C13_NoTimeoutWhenDisabled ==
    \A o \in Ops :
        engReq[o].kind = "RunSync" /\ callTimeout[o] = 0
            => /\ pc[o] = "returned" => engState[o] = "done"
               /\ engState[o] = "done" => ret[o] = ResponseWith(engResult[o])
               /\ ret[o].code # "Timeout"

(* C13, the case: a RunSync with timeout 0 has returned the engine's       *)
(* result, and a RunSync with a positive timeout has returned Timeout.     *)
C13_Witness ==
    \E a \in Ops, b \in Ops :
        /\ engReq[a].kind = "RunSync" /\ callTimeout[a] = 0
        /\ pc[a] = "returned" /\ ret[a].code \in {"Success", "ExecutionFailure"}
        /\ engReq[b].kind = "RunSync" /\ callTimeout[b] > 0
        /\ pc[b] = "returned" /\ ret[b].code = "Timeout"

C15_SubmitDoesNotWait ==
    /\ [](\A o \in Ops : pc[o] = "called" => IsAsync(o) /\ Outstanding(o))
    /\ \A o \in Ops : (pc[o] = "called") ~> (pc[o] = "returned")

(* C15, the case: the caller has control back from a LoadFile, a Load or a *)
(* Run that the engine has not completed, whose callback has not run.      *)
C15_Witness ==
    \E o \in Ops :
        /\ IsAsync(o) /\ pc[o] = "returned"
        /\ Outstanding(o) /\ cbLog[o] = <<>>
        /\ engResult[o] = NoResult

(* The caller's Response variables that are default-constructed and have   *)
(* not been assigned what a call returned.                                 *)
DefaultConstructed == {o \in Ops : engReq[o].kind \notin SyncKinds}

(* C16: a default-constructed Response has code Undefined, an empty error  *)
(* text and an empty return-value text.                                    *)
C16_DefaultResponse ==
    \A o \in DefaultConstructed :
        /\ ret[o].code = "Undefined"
        /\ ret[o].error = <<>>
        /\ ret[o].returnValue = <<>>

(* C16, the case: one Response variable holds what a RunSync returned, a   *)
(* Success with a return value, and another is as it was constructed.      *)
C16_Witness ==
    \E a \in Ops, b \in Ops :
        /\ engReq[a].kind = "RunSync" /\ ret[a].code = "Success"
        /\ ret[a].returnValue # <<>>
        /\ b \in DefaultConstructed /\ ret[b].code = "Undefined"

(* The heap cells that hold the context of call o. *)
ContextsOf(o) == {a \in Addrs : heap[a] = o}

(* C17: the context of an asynchronous call is allocated at submission and *)
(* handed to the engine; the completion handler takes it back, invokes its *)
(* callback and then destroys it.  Nothing happens to it before or after:  *)
(* it is destroyed once, after the callback has been invoked, and neither  *)
(* invoked nor freed again.  It is on the heap exactly from its allocation *)
(* to its destruction.                                                     *)
C17_ContextLifecycle ==
    \A o \in Ops :
        /\ ctxLog[o] \in
               {<<>>,
                <<"allocated", "engine">>,
                <<"allocated", "engine", "reclaimed", "invoked", "destroyed">>}
        /\ Cardinality(ContextsOf(o)) =
               (IF ctxLog[o] = <<"allocated", "engine">> THEN 1 ELSE 0)
        /\ ctxLog[o] = <<"allocated", "engine">>
               => engReq[o].context \in ContextsOf(o) /\ cbLog[o] = <<>>
        /\ Len(ctxLog[o]) = 5 => Len(cbLog[o]) = 1 /\ engState[o] = "done"
        /\ ctxLog[o] = <<>> => ~IsAsync(o)

(* C17, the case: the context of one call has been through its whole life  *)
(* and is gone, and a later call has its context on the heap, owned by the *)
(* engine.                                                                 *)
C17_Witness ==
    \E a \in Ops, b \in Ops :
        /\ a < b
        /\ Len(ctxLog[a]) = 5 /\ ContextsOf(a) = {}
        /\ ctxLog[b] = <<"allocated", "engine">>
        /\ ContextsOf(b) = {engReq[b].context}

(* Container c came out of a construction that succeeded: the engine gave  *)
(* a handle and initialized it.                                            *)
ConstructedOk(c) ==
    /\ objState[c] = "live"
    /\ objHandle[c] # NullHandle
    /\ engInit[objHandle[c]] = "Success"

(* C18: the handle of a Container whose construction succeeded is one the  *)
(* engine issued, and no step changes it while the Container is alive, nor *)
(* its destruction: from construction on, the handle is the one the engine *)
(* gave then.                                                              *)
C18_HandleFixed ==
    /\ [](\A c \in Objs :
             ConstructedOk(c) => engHandle[objHandle[c]] # "free")
    /\ [][\A c \in Objs :
             ConstructedOk(c) => objHandle'[c] = objHandle[c]]_vars

(* The contexts on the heap. *)
LiveContexts == {a \in Addrs : heap[a] # Free}

(* The asynchronous calls submitted whose completion handler has not run. *)
Unfinished == {o \in Ops : IsAsync(o) /\ cbLog[o] = <<>>}

(* Call o is submitted in this step, by LoadFile, Load or Run. *)
SubmitsNow(o) == pc[o] = "idle" /\ pc'[o] = "called" /\ IsAsync(o)'

(* The completion handler of call o runs in this step. *)
HandlesNow(o) == IsAsync(o) /\ cbLog'[o] # cbLog[o]

(* C19: there are as many contexts on the heap as asynchronous calls       *)
(* submitted whose completion handler has not run, and the heap changes    *)
(* only in a step that submits an asynchronous call, which allocates one   *)
(* context, or runs a completion handler, which frees one: no synchronous  *)
(* call, constructor or destructor allocates or frees a context.           *)
C19_ContextsMatchUnfinished ==
    /\ [](Cardinality(LiveContexts) = Cardinality(Unfinished))
    /\ [][heap' # heap
             => \/ \E o \in Ops :
                     /\ SubmitsNow(o)
                     /\ Cardinality(LiveContexts') = Cardinality(LiveContexts) + 1
                \/ \E o \in Ops :
                     /\ HandlesNow(o)
                     /\ Cardinality(LiveContexts) = Cardinality(LiveContexts') + 1
         ]_vars

(* C19, the case: a container was destroyed while a call on it was         *)
(* outstanding; that call's context is still on the heap, the only one,    *)
(* after a synchronous call has been made as well.                         *)
C19_Witness ==
    \E c \in Objs, a \in Ops, b \in Ops :
        /\ objState[c] = "destroyed" /\ busyAtExit[c] = 1
        /\ IsAsync(a) /\ Outstanding(a) /\ engReq[a].handle = objHandle[c]
        /\ LiveContexts = {engReq[a].context}
        /\ engReq[b].kind \in SyncKinds /\ engState[b] = "done"

==========================================================================
